---- MODULE Spec2Model ----
(***************************************************************************)
(* Model of the RFID_RP hardware-supervision layer:                        *)
(*   src/src/battery/main_rp.py      PCA9539 expander driver, detect/reset *)
(*                                   sequencer, channel poller, stop,      *)
(*                                   hot reset, window-close cleanup       *)
(*   src/src/driver/main_rp.py       MR793200Poller (fan / seat profile)   *)
(*   src/src/mr793200/mr793200_controller.py   SPI NVM read protocol       *)
(*                                                                         *)
(* Four specifications share the module:                                   *)
(*   SpecPca     the PCA9539Controller methods called in any order         *)
(*   SpecNvm     read_nvm1 / read_nvm4 applied to device responses         *)
(*   SpecDriver  the fan/seat poller: start, poll thread, stop             *)
(*   Spec        the battery application: its asyncio tasks, one action    *)
(*               per run of code between two awaits                        *)
(***************************************************************************)
EXTENDS Integers, Sequences, FiniteSets, TLC

VARIABLES
    pca,        \* PCA9539Controller fields: [bus, initialized]
    dev,        \* the expander's registers, by register address
    call,       \* SpecPca: the last method call, its result and its bus traffic
    nvm,        \* SpecNvm: the device's words, the response cut and the last reads
    cyc,        \* one pass of the channel decoding: the words read, the fault, the result
    wside,      \* the write side of the controller: calls made, and the bus log
    \* driver/main_rp.py, MR793200Poller and its two buttons
    stop_event, \* threading.Event: set or not
    cleaned_up, \* MR793200Poller.cleaned_up
    controller, \* self.controller: 0 for None, else the number of the controller
    spi_open,   \* for each controller created, whether its SPI handle is open
    thread,     \* self.thread: 0 for None, else the number of the thread
    thr,        \* for each poll thread created, where it stands
    prev_fan,   \* last accepted fan level of each position
    prev_seat,  \* last accepted heater level of each position
    pub,        \* the last "update" message published, or NoUpdate
    hist,       \* the last HistLen publications with the words they came from
    tracing,    \* whether hist is kept (SpecDecode only)
    stopper,    \* where the stop() call in progress stands
    btn,        \* [play, stop]: which button is enabled
    session,    \* since the last start(): pin cleanups, SPI closes, reads on a closed handle
    \* battery/main_rp.py: the pins, AppState and the tasks of the application
    vdet_pin,       \* level of the detect input (GPIO4)
    reset_pin,      \* level driven on the reset output (GPIO15)
    gpio_claimed,   \* VDET and RESET are set up and not yet cleaned up
    vdet_state,     \* AppState.vdet_state
    reset_state,    \* AppState.reset_state
    i2c_ready,      \* AppState.i2c_ready
    app_running,    \* AppState.app_running
    spi_running,    \* AppState.spi_running
    spi_task,       \* AppState.spi_task: "none", "sleep" (in its 0.5 s await), "done"
    spi_ctrl,       \* AppState.spi_ctrl: "None" or "open"
    spi_en,         \* GPIO27 is set up as an output
    seq,            \* gpio_poll_task: "sleep", "rise_wait1", "rise_wait2", "exit"
    hot,            \* do_hot_reset tasks in flight: how many in each await, and
                    \* whether the detect pin changed while any was in flight
    stopw,          \* do_stop: "idle" or "wait"
    closing,        \* do_cleanup_and_close: "idle", "wait", "done"
    buttons,        \* [play, stop]: the button is enabled
    shown,          \* the 16 lights and temperature texts
    last,           \* the task that ran last and what it did, in order
    moved,          \* the detect pin changed during the rising-edge sequence in progress
    sdlog           \* first occurrences of the shutdown events, in order

pcaVars == <<pca, dev, call>>
nvmVars == <<nvm, cyc, wside>>
drvVars == <<stop_event, cleaned_up, controller, spi_open, thread, thr, prev_fan,
             prev_seat, pub, hist, tracing, stopper, btn, session>>
appVars == <<vdet_pin, reset_pin, gpio_claimed, vdet_state, reset_state, i2c_ready,
             app_running, spi_running, spi_task, spi_ctrl, spi_en, seq, hot,
             stopw, closing, buttons, shown, last, moved, sdlog>>
vars == <<pca, dev, call, nvm, cyc, wside, stop_event, cleaned_up, controller, spi_open, thread,
          thr, prev_fan, prev_seat, pub, hist, tracing, stopper, btn, session,
          vdet_pin, reset_pin, gpio_claimed, vdet_state, reset_state, i2c_ready,
          app_running, spi_running, spi_task, spi_ctrl, spi_en, seq, hot,
          stopw, closing, buttons, shown, last, moved, sdlog>>

(***************************************************************************)
(* Bounds                                                                  *)
(***************************************************************************)
\* how many registers may read back corrupted during one driver call
MaxBad == 1
\* the largest word count asked of a register read
MaxWords == 3
\* by how many bytes the SPI layer may cut a response short
MaxShort == 2
\* how many poll threads (and controllers) the fan/seat poller may create
MaxThreads == 2
\* how many publications the decode history keeps
HistLen == 3
\* where the session counters stop counting
MaxCount == 3
\* how many do_hot_reset tasks may be in flight at once
MaxHot == 1
\* hot resets in flight at once when the clicks may overlap
MaxOverlap == 2
\* how many calls of the controller's write side are followed
MaxCalls == 3

(***************************************************************************)
(* battery/main_rp.py: PCA9539 register map                                *)
(***************************************************************************)
REG_OUT0 == 2
REG_OUT1 == 3
REG_POL0 == 4
REG_POL1 == 5
REG_CFG0 == 6
REG_CFG1 == 7

Regs == {REG_OUT0, REG_OUT1, REG_POL0, REG_POL1, REG_CFG0, REG_CFG1}

\* the 16-bit output masks the model drives the expander with
Masks == {0, 1, 4660, 65280}

\* The registers as they stand before the first init_device: the outputs and
\* the configuration all ones, the polarity zero.
DevPowerOn == [r \in Regs |-> IF r \in {REG_POL0, REG_POL1} THEN 0 ELSE 255]

\* A read that the bus delivers corrupted: bit 0 of the stored byte flipped.
Corrupt(v) == IF v % 2 = 0 THEN v + 1 ELSE v - 1

(***************************************************************************)
(* The environment of one driver call: whether SMBus() fails, which bus    *)
(* transfer (counted from 1, 0 = none) raises, which registers read back   *)
(* corrupted, whether bus.close() raises.                                  *)
(***************************************************************************)
BadSets(regs) == {b \in SUBSET regs : Cardinality(b) <= MaxBad}

Envs(opens, maxOps, regs, closes) ==
    [open_fails : opens, fail_at : 0..maxOps, bad : BadSets(regs),
     close_fails : closes]

NoFaults == [open_fails |-> FALSE, fail_at |-> 0, bad |-> {}, close_fails |-> FALSE]

\* The machine a method runs on: the controller's fields, the device, the
\* number of bus transfers made so far in this call, the pending exception,
\* the bus traffic of the call, the last byte read and the return value.
Start(p, d, env) ==
    [bus |-> p.bus, initialized |-> p.initialized, dev |-> d, n |-> 0,
     exc |-> FALSE, ops |-> <<>>, val |-> 0, ret |-> FALSE, env |-> env]

Op(kind, reg, v) == [op |-> kind, reg |-> reg, val |-> v]

\* PCA9539Controller.open
open(m) ==
    IF m.exc \/ m.bus # "None" THEN m
    ELSE IF m.env.open_fails
         THEN [m EXCEPT !.exc = TRUE, !.ops = Append(@, Op("open_err", 0, 0))]
         ELSE [m EXCEPT !.bus = "SMBus", !.ops = Append(@, Op("open", 0, 0))]

\* PCA9539Controller.write_reg
write_reg(m, reg, v) ==
    IF m.exc THEN m
    ELSE IF m.bus = "None" THEN [m EXCEPT !.exc = TRUE]
    ELSE IF m.env.fail_at = m.n + 1
         THEN [m EXCEPT !.n = @ + 1, !.exc = TRUE,
                        !.ops = Append(@, Op("write_err", reg, v % 256))]
         ELSE [m EXCEPT !.n = @ + 1, !.dev[reg] = v % 256,
                        !.ops = Append(@, Op("write", reg, v % 256))]

\* read_reg, a mutant: a failed transfer is swallowed and reads as zero
read_reg_ErrorReadsZero(m, reg) ==
    IF m.exc THEN m
    ELSE IF m.bus = "None" THEN [m EXCEPT !.exc = TRUE]
    ELSE IF m.env.fail_at = m.n + 1
         THEN [m EXCEPT !.n = @ + 1, !.val = 0,
                        !.ops = Append(@, Op("read_err", reg, 0))]
         ELSE LET got == IF reg \in m.env.bad THEN Corrupt(m.dev[reg]) ELSE m.dev[reg]
              IN [m EXCEPT !.n = @ + 1, !.val = got % 256,
                           !.ops = Append(@, Op("read", reg, got % 256))]

\* PCA9539Controller.read_reg
read_reg(m, reg) ==
    IF m.exc THEN m
    ELSE IF m.bus = "None" THEN [m EXCEPT !.exc = TRUE]
    ELSE IF m.env.fail_at = m.n + 1
         THEN [m EXCEPT !.n = @ + 1, !.exc = TRUE,
                        !.ops = Append(@, Op("read_err", reg, 0))]
         ELSE LET got == IF reg \in m.env.bad THEN Corrupt(m.dev[reg]) ELSE m.dev[reg]
              IN [m EXCEPT !.n = @ + 1, !.val = got % 256,
                           !.ops = Append(@, Op("read", reg, got % 256))]

\* init_device, a mutant: the last output readback is not compared
init_ok_NoOut1(pol0, pol1, cfg0, cfg1, out0, out1) ==
    pol0 = 0 /\ pol1 = 0 /\ cfg0 = 0 /\ cfg1 = 0 /\ out0 = 0

\* init_device: ok = (pol0 == 0x00 and ... and out1 == 0x00)
init_ok(pol0, pol1, cfg0, cfg1, out0, out1) ==
    pol0 = 0 /\ pol1 = 0 /\ cfg0 = 0 /\ cfg1 = 0 /\ out0 = 0 /\ out1 = 0

\* PCA9539Controller.init_device
init_device(m0) ==
    LET a1 == open(m0)
        a2 == write_reg(a1, REG_POL0, 0)
        a3 == write_reg(a2, REG_POL1, 0)
        a4 == read_reg(a3, REG_POL0)
        a5 == read_reg(a4, REG_POL1)
        b1 == write_reg(a5, REG_CFG0, 0)
        b2 == write_reg(b1, REG_CFG1, 0)
        b3 == read_reg(b2, REG_CFG0)
        b4 == read_reg(b3, REG_CFG1)
        c1 == write_reg(b4, REG_OUT0, 0)
        c2 == write_reg(c1, REG_OUT1, 0)
        c3 == read_reg(c2, REG_OUT0)
        c4 == read_reg(c3, REG_OUT1)
        ok == init_ok(a4.val, a5.val, b3.val, b4.val, c3.val, c4.val)
    IN IF c4.exc
       THEN [c4 EXCEPT !.exc = FALSE, !.initialized = FALSE, !.ret = FALSE]
       ELSE [c4 EXCEPT !.initialized = ok, !.ret = ok]

\* set_outputs_16, a mutant: only bank 0 is verified
verify_ok_Bank0Only(r0, r1, out0, out1) == r0 = out0

\* set_outputs_16: ok = (r0 == out0 and r1 == out1)
verify_ok(r0, r1, out0, out1) == r0 = out0 /\ r1 = out1

\* set_outputs_16, a mutant: an open bus is enough
Refuses_BusOnly(bus, initialized) == bus = "None"

\* set_outputs_16: "if self.bus is None or not self.initialized"
Refuses(bus, initialized) == bus = "None" \/ ~initialized

\* set_outputs_16, a mutant: bank 1 takes the low byte too
Bank1_Unshifted(mask16) == mask16 % 256

\* set_outputs_16: out0 = mask16 & 0xFF
Bank0(mask16) == mask16 % 256

\* set_outputs_16: out1 = (mask16 >> 8) & 0xFF
Bank1(mask16) == (mask16 \div 256) % 256

\* PCA9539Controller.set_outputs_16
set_outputs_16(m0, mask16) ==
    IF Refuses(m0.bus, m0.initialized)
    THEN [m0 EXCEPT !.ret = FALSE]
    ELSE LET out0 == Bank0(mask16)
             out1 == Bank1(mask16)
             w0 == write_reg(m0, REG_OUT0, out0)
             w1 == write_reg(w0, REG_OUT1, out1)
             r0 == read_reg(w1, REG_OUT0)
             r1 == read_reg(r0, REG_OUT1)
         IN IF r1.exc
            THEN [r1 EXCEPT !.exc = FALSE, !.ret = FALSE]
            ELSE [r1 EXCEPT !.ret = verify_ok(r0.val, r1.val, out0, out1)]

\* shutdown_safe, a mutant without the finally: a failed write leaves at once
shutdown_safe_NoFinally(m0) ==
    LET w0 == write_reg(m0, REG_OUT0, 0)
        w1 == write_reg(w0, REG_OUT1, 0)
    IN IF m0.bus # "None" /\ w1.exc
       THEN w1
       ELSE [w1 EXCEPT !.bus = "None", !.initialized = FALSE, !.exc = FALSE,
                       !.ops = IF m0.bus = "None" THEN @ ELSE Append(@, Op("close", 0, 0))]

\* shutdown_safe, a mutant: the handle is closed whether or not there is one
shutdown_safe_AlwaysClose(m0) ==
    LET w0 == write_reg(m0, REG_OUT0, 0)
        w1 == write_reg(w0, REG_OUT1, 0)
        z  == IF m0.bus = "None" THEN m0 ELSE [w1 EXCEPT !.exc = FALSE]
    IN [z EXCEPT !.bus = "None", !.initialized = FALSE,
                 !.ops = Append(@, Op("close", 0, 0))]

\* shutdown_safe, a mutant: the handle is released, initialized is left alone
shutdown_safe_KeepsInitialized(m0) ==
    LET w0 == write_reg(m0, REG_OUT0, 0)
        w1 == write_reg(w0, REG_OUT1, 0)
        z  == IF m0.bus = "None" THEN m0 ELSE [w1 EXCEPT !.exc = FALSE]
        cl == IF z.bus = "None" THEN z
              ELSE [z EXCEPT !.ops = Append(@,
                        Op(IF z.env.close_fails THEN "close_err" ELSE "close", 0, 0))]
    IN [cl EXCEPT !.bus = "None"]

\* PCA9539Controller.shutdown_safe
shutdown_safe(m0) ==
    LET w0 == write_reg(m0, REG_OUT0, 0)
        w1 == write_reg(w0, REG_OUT1, 0)
        z  == IF m0.bus = "None" THEN m0 ELSE [w1 EXCEPT !.exc = FALSE]
        cl == IF z.bus = "None" THEN z
              ELSE [z EXCEPT !.ops = Append(@,
                        Op(IF z.env.close_fails THEN "close_err" ELSE "close", 0, 0))]
    IN [cl EXCEPT !.bus = "None", !.initialized = FALSE]

Fields(m) == [bus |-> m.bus, initialized |-> m.initialized]

\* no method called yet
NoCall ==
    [op |-> "none", mask |-> 0, pre |-> [bus |-> "None", initialized |-> FALSE],
     predev |-> DevPowerOn, ret |-> FALSE, raised |-> FALSE, ops |-> <<>>]

\* the controller as constructed, the device as powered on
PcaIdle ==
    /\ pca = [bus |-> "None", initialized |-> FALSE]
    /\ dev = DevPowerOn
    /\ call = NoCall


(***************************************************************************)
(* mr793200_controller.py: the SPI NVM read protocol                       *)
(***************************************************************************)
READ_NVM1 == 16

\* the register words the model puts in the device
NvmWords == {4660, 171, 65535}

Min(a, b) == IF a < b THEN a ELSE b

RECURSIVE BitOr(_, _)
\* Python's a | b on non-negative integers
BitOr(a, b) ==
    IF a = 0 THEN b
    ELSE IF b = 0 THEN a
    ELSE (IF a % 2 = 1 \/ b % 2 = 1 THEN 1 ELSE 0) + 2 * BitOr(a \div 2, b \div 2)

\* Python's s[a:b] for 0 <= a, 0 <= b
PySlice(s, a, b) == SubSeq(s, a + 1, Min(b, Len(s)))

Zeros(n) == [i \in 1..n |-> 0]

RECURSIVE Flatten(_)
Flatten(ss) == IF ss = <<>> THEN <<>> ELSE Head(ss) \o Flatten(Tail(ss))

HexLower == <<"0", "1", "2", "3", "4", "5", "6", "7", "8", "9", "a", "b", "c", "d", "e", "f">>
HexUpper == <<"0", "1", "2", "3", "4", "5", "6", "7", "8", "9", "A", "B", "C", "D", "E", "F">>

\* bytearray(bs).hex(): two lower-case digits a byte
hex(bs) == Flatten([i \in 1..Len(bs) |-> <<HexLower[(bs[i] \div 16) + 1], HexLower[(bs[i] % 16) + 1]>>])

\* str.upper() on a string of hex digits
upper(h) ==
    [i \in 1..Len(h) |->
        IF \E k \in 1..16 : HexLower[k] = h[i]
        THEN HexUpper[CHOOSE k \in 1..16 : HexLower[k] = h[i]]
        ELSE h[i]]

DigitValue(c) == (CHOOSE k \in 1..16 : HexLower[k] = c \/ HexUpper[k] = c) - 1

RECURSIVE int16(_)
\* int(h, 16) of a non-empty string of hex digits, either case
int16(h) ==
    IF Len(h) = 0 THEN 0
    ELSE 16 * int16(SubSeq(h, 1, Len(h) - 1)) + DigitValue(h[Len(h)])

\* What the device clocks out while n bytes are clocked in: four bytes during
\* the command, then for each word from the addressed register on its two
\* data bytes, high byte first, and two more bytes before the next word.
DeviceStream(words) ==
    <<0, 0, 0, 0>> \o
    Flatten([i \in 1..Len(words) |-> <<words[i] \div 256, words[i] % 256, 0, 0>>])

\* spi.xfer2(tx): as many bytes back as were sent, less what the link dropped
xfer2(d, tx) == SubSeq(DeviceStream(d.words), 1, Min(Len(tx), Len(DeviceStream(d.words))) - d.short)

\* read_nvm1, a mutant: four filler bytes a word, as read_nvm4 sends
Filler1_FourPerWord(word_len) == Zeros(word_len * 4)

\* read_nvm1: [0x00]*word_len*2
Filler1(word_len) == Zeros(word_len * 2)

\* mr793200_controller.read_nvm1 -> [tx, raised, out]
read_nvm1(d, addr_msb, addr_lsb, word_len) ==
    LET tx == <<BitOr(READ_NVM1, addr_msb), addr_lsb, 0, 0>> \o Filler1(word_len)
        resp == xfer2(d, tx)
        read_data == PySlice(resp, 2, Len(resp))
        read_data_hex ==
            Flatten([k \in 1..word_len |->
                PySlice(read_data, 2 * (2 * (k - 1) + 1), 2 * (2 * (k - 1) + 1) + 2)])
    IN [tx |-> tx, raised |-> FALSE, out |-> hex(read_data_hex)]

\* read_nvm4, a mutant: the length check forgets the header
TooShort4_NoHeader(resp, word_len) == Len(resp) < word_len * 4

\* read_nvm4: len(resp) < 4 + word_len * 4
TooShort4(resp, word_len) == Len(resp) < 4 + word_len * 4

\* read_nvm4, a mutant: the trailing two bytes of the block taken as data
Block4_Trailing(payload, k) == PySlice(payload, (k - 1) * 4 + 2, (k - 1) * 4 + 4)

\* read_nvm4: payload[base : base + 2] with base = i * 4, for i = k - 1
Block4(payload, k) == PySlice(payload, (k - 1) * 4, (k - 1) * 4 + 2)

\* mr793200_controller.read_nvm4 -> [tx, raised, out]
read_nvm4(d, addr_msb, addr_lsb, word_len) ==
    LET tx == <<BitOr(READ_NVM1, addr_msb), addr_lsb, 0, 0>> \o Zeros(word_len * 4)
        resp == xfer2(d, tx)
        payload == PySlice(resp, 4, Len(resp))
        data_bytes == Flatten([k \in 1..word_len |-> Block4(payload, k)])
    IN IF TooShort4(resp, word_len)
       THEN [tx |-> tx, raised |-> TRUE, out |-> <<>>]
       ELSE [tx |-> tx, raised |-> FALSE, out |-> upper(hex(data_bytes))]

WRITE_NVM == 224
WRITE_SPIST == 192

\* the bus log: transfers and sleeps in the order they are made
Xfer(tx) == [kind |-> "xfer", tx |-> tx, ms |-> 0]
Sleep(ms) == [kind |-> "sleep", tx |-> <<>>, ms |-> ms]

\* mr793200_controller.enable_write_nvm: the log after it
enable_write_nvm(log) == Append(log, Xfer(<<BitOr(WRITE_SPIST, 0), 0, 0, 1>>))

\* mr793200_controller.write_nvm: the log after it; for each of the
\* len(data) // 2 words one transfer and time.sleep(0.008)
write_nvm(log, addr_msb, addr_lsb, data) ==
    log \o Flatten([k \in 1..(Len(data) \div 2) |->
                       <<Xfer(<<BitOr(WRITE_NVM, addr_msb), addr_lsb + (k - 1) * 2>>
                                \o PySlice(data, 2 * (k - 1), 2 * (k - 1) + 2)),
                         Sleep(8)>>])

\* mr793200_controller.write_nvm_user_memory
write_nvm_user_memory(log, addr_offset, data) == write_nvm(log, 4, 34 + addr_offset, data)

\* nothing called yet on the write side
NoWrites == [n |-> 0, log |-> <<>>, start |-> 0, addr_offset |-> 0, data |-> <<>>]

\* the 16-bit values a returned hex string holds: int(h[4i:4i+4], 16) for
\* each complete group of four digits
WordsOfHex(h) == [i \in 1..(Len(h) \div 4) |-> int16(SubSeq(h, 4 * i - 3, 4 * i))]

(***************************************************************************)
(* SpecNvm: both reads applied to one device, for every word count, every  *)
(* register content and every cut of the response.                        *)
(***************************************************************************)
NotRead == [tx |-> <<>>, raised |-> FALSE, out |-> <<>>]

\* no pass of the channel decoding under study
NoCycle == [onoff |-> 0, temps |-> <<>>, fault |-> [at |-> 0, kind |-> "none", short |-> 0],
            done |-> FALSE, ok |-> FALSE, shown |-> <<>>]

NvmIdle ==
    /\ nvm = [words |-> <<>>, count |-> 0, short |-> 0, a |-> NotRead, b |-> NotRead,
              done |-> {}]
    /\ cyc = NoCycle
    /\ wside = NoWrites

(***************************************************************************)
(* driver/main_rp.py: MR793200Poller, the fan / seat profile               *)
(***************************************************************************)
Positions == <<"FL", "FR", "RL", "RR">>
PosSet == {"FL", "FR", "RL", "RR"}

\* (w >> 4*i) & 0xF
Nibble(w, i) == (w \div (16 ^ i)) % 16

\* the position's place in the word: FL <- [3:0], FR <- [7:4], RL <- [11:8], RR <- [15:12]
PosIndex(k) == (CHOOSE i \in 1..4 : Positions[i] = k) - 1

\* a mutant: 0xB is taken for a valid fan level
FanInvalid_FromC(v) == 12 <= v /\ v <= 15

\* 0xB <= fan_vals[k] <= 0xF
FanInvalid(v) == 11 <= v /\ v <= 15

\* a mutant: heater nibbles count as invalid from 0x5 on
SeatInvalid_From5(v) == 5 <= v /\ v <= 15

\* 0x4 <= seat_vals[k] <= 0xF
SeatInvalid(v) == 4 <= v /\ v <= 15

\* the (fan word, heater word) pairs the model puts at 0x22 and 0x24
DrvSamples == {<<3, 1>>, <<12, 4>>, <<5, 2>>, <<45991, 16144>>, <<65535, 65535>>}

NoUpdate == [kind |-> "none", fan |-> [k \in PosSet |-> 0], seat |-> [k \in PosSet |-> 0]]

\* One pass of the body of _run's loop on the words the device holds, cut by
\* `short` bytes: [ok, fan, seat, prev_fan, prev_seat]; ok = FALSE when the
\* read raised or returned fewer than 8 digits.
PollCycle(pf, ps, sample, short) ==
    LET r == read_nvm4([words |-> sample, short |-> short], 4, 34, 2)
        data_hex == upper(r.out)
        failed == r.raised \/ Len(data_hex) < 8
        w1 == int16(PySlice(data_hex, 0, 4))
        w2 == int16(PySlice(data_hex, 4, 8))
        fan_raw == [k \in PosSet |-> Nibble(w1, PosIndex(k))]
        seat_raw == [k \in PosSet |-> Nibble(w2, PosIndex(k))]
        fan_vals == [k \in PosSet |-> IF FanInvalid(fan_raw[k]) THEN pf[k] ELSE fan_raw[k]]
        seat_vals == [k \in PosSet |-> IF SeatInvalid(seat_raw[k]) THEN ps[k] ELSE seat_raw[k]]
    IN IF failed
       THEN [ok |-> FALSE, fan |-> pf, seat |-> ps, prev_fan |-> pf, prev_seat |-> ps]
       ELSE [ok |-> TRUE, fan |-> fan_vals, seat |-> seat_vals,
             prev_fan |-> fan_vals, prev_seat |-> seat_vals]

Bump(n) == Min(n + 1, MaxCount)

NewSession == [en_cleanups |-> 0, spi_closes |-> 0, closed_reads |-> 0]

DrvIdle ==
    /\ stop_event = FALSE
    /\ cleaned_up = FALSE
    /\ controller = 0
    /\ spi_open = <<>>
    /\ thread = 0
    /\ thr = <<>>
    /\ prev_fan = [k \in PosSet |-> 0]
    /\ prev_seat = [k \in PosSet |-> 0]
    /\ pub = NoUpdate
    /\ hist = <<>>
    /\ tracing = FALSE
    /\ stopper = "idle"
    /\ btn = [play |-> TRUE, stop |-> FALSE]
    /\ session = NewSession

Alive(t) == t # 0 /\ thr[t] # "dead"

\* on_play_click, then MR793200Poller.start: the controller may fail to open
DrvStart ==
    /\ btn.play
    /\ Len(thr) < MaxThreads
    /\ btn' = [play |-> FALSE, stop |-> TRUE]
    /\ stop_event' = FALSE
    /\ cleaned_up' = FALSE
    /\ session' = NewSession
    /\ \E opened \in BOOLEAN :
          IF opened
          THEN /\ spi_open' = Append(spi_open, TRUE)
               /\ controller' = Len(spi_open) + 1
               /\ thr' = Append(thr, "loop")
               /\ thread' = Len(thr) + 1
               /\ pub' = [pub EXCEPT !.kind = "tid"]
          ELSE UNCHANGED <<spi_open, controller, thr, thread, pub>>
    /\ UNCHANGED <<prev_fan, prev_seat, hist, tracing, stopper>>
    /\ UNCHANGED <<pcaVars, nvmVars, appVars>>

\* _run: the loop test, and one pass of the loop body when the event is clear
DrvPoll(t) ==
    /\ thr[t] = "loop"
    /\ IF stop_event
       THEN /\ thr' = [thr EXCEPT ![t] = "cleanup"]
            /\ UNCHANGED <<prev_fan, prev_seat, pub, hist, session>>
       ELSE /\ thr' = [thr EXCEPT ![t] = "wait"]
            /\ IF ~spi_open[controller]
               THEN /\ session' = [session EXCEPT !.closed_reads = Bump(@)]
                    /\ UNCHANGED <<prev_fan, prev_seat, pub, hist>>
               ELSE \E sample \in DrvSamples, short \in 0..MaxShort :
                       LET c == PollCycle(prev_fan, prev_seat, sample, short)
                           h == [w1 |-> sample[1], w2 |-> sample[2],
                                 fan |-> c.fan, seat |-> c.seat]
                       IN /\ prev_fan' = c.prev_fan
                          /\ prev_seat' = c.prev_seat
                          /\ pub' = IF c.ok
                                    THEN [kind |-> "update", fan |-> c.fan, seat |-> c.seat]
                                    ELSE pub
                          /\ hist' = IF c.ok /\ tracing
                                     THEN (IF Len(hist) < HistLen THEN hist ELSE Tail(hist))
                                          \o <<h>>
                                     ELSE hist
                          /\ UNCHANGED session
    /\ UNCHANGED <<stop_event, cleaned_up, controller, spi_open, thread, tracing, stopper, btn>>
    /\ UNCHANGED <<pcaVars, nvmVars, appVars>>

\* _run: the ten 0.1 s sleeps, left early when the event is seen set
DrvWait(t) ==
    /\ thr[t] = "wait"
    /\ thr' = [thr EXCEPT ![t] = "loop"]
    /\ UNCHANGED <<stop_event, cleaned_up, controller, spi_open, thread, prev_fan,
                   prev_seat, pub, hist, tracing, stopper, btn, session>>
    /\ UNCHANGED <<pcaVars, nvmVars, appVars>>

\* safe_cleanup past its test of cleaned_up: GPIO.cleanup(27), spi.close()
\* on the current controller, cleaned_up = True
SafeCleanupBody ==
    /\ session' = [session EXCEPT !.en_cleanups = Bump(@),
                                  !.spi_closes = IF controller # 0 THEN Bump(@) ELSE @]
    /\ spi_open' = IF controller # 0 THEN [spi_open EXCEPT ![controller] = FALSE]
                   ELSE spi_open
    /\ cleaned_up' = TRUE

\* _run's finally: safe_cleanup, its test
DrvThreadCleanupTest(t) ==
    /\ thr[t] = "cleanup"
    /\ thr' = [thr EXCEPT ![t] = IF cleaned_up THEN "dead" ELSE "closing"]
    /\ UNCHANGED <<stop_event, cleaned_up, controller, spi_open, thread, prev_fan,
                   prev_seat, pub, hist, tracing, stopper, btn, session>>
    /\ UNCHANGED <<pcaVars, nvmVars, appVars>>

\* _run's finally: safe_cleanup, its body; the thread ends
DrvThreadCleanupBody(t) ==
    /\ thr[t] = "closing"
    /\ thr' = [thr EXCEPT ![t] = "dead"]
    /\ SafeCleanupBody
    /\ UNCHANGED <<stop_event, controller, thread, prev_fan, prev_seat, pub, hist,
                   tracing, stopper, btn>>
    /\ UNCHANGED <<pcaVars, nvmVars, appVars>>

\* on_stop_click, then MR793200Poller.stop up to its join
DrvStopBegin ==
    /\ btn.stop
    /\ stopper = "idle"
    /\ btn' = [play |-> TRUE, stop |-> FALSE]
    /\ stop_event' = TRUE
    /\ stopper' = IF Alive(thread) THEN "join" ELSE "cleanup"
    /\ UNCHANGED <<cleaned_up, controller, spi_open, thread, thr, prev_fan, prev_seat,
                   pub, hist, tracing, session>>
    /\ UNCHANGED <<pcaVars, nvmVars, appVars>>

\* stop: thread.join(timeout=2.0) returns, the thread dead or not
DrvStopJoin ==
    /\ stopper = "join"
    /\ stopper' = "cleanup"
    /\ UNCHANGED <<stop_event, cleaned_up, controller, spi_open, thread, thr, prev_fan,
                   prev_seat, pub, hist, tracing, btn, session>>
    /\ UNCHANGED <<pcaVars, nvmVars, appVars>>

\* stop's finally: safe_cleanup, its test
DrvStopCleanupTest ==
    /\ stopper = "cleanup"
    /\ stopper' = IF cleaned_up THEN "finish" ELSE "closing"
    /\ UNCHANGED <<stop_event, cleaned_up, controller, spi_open, thread, thr, prev_fan,
                   prev_seat, pub, hist, tracing, btn, session>>
    /\ UNCHANGED <<pcaVars, nvmVars, appVars>>

\* stop's finally: safe_cleanup, its body
DrvStopCleanupBody ==
    /\ stopper = "closing"
    /\ stopper' = "finish"
    /\ SafeCleanupBody
    /\ UNCHANGED <<stop_event, controller, thread, thr, prev_fan, prev_seat, pub, hist,
                   tracing, btn>>
    /\ UNCHANGED <<pcaVars, nvmVars, appVars>>

\* on_stop_click after poller.stop(): bars off, TID cleared, Play enabled
DrvStopFinish ==
    /\ stopper = "finish"
    /\ stopper' = "idle"
    /\ btn' = [btn EXCEPT !.play = TRUE]
    /\ pub' = [pub EXCEPT !.kind = "none"]
    /\ UNCHANGED <<stop_event, cleaned_up, controller, spi_open, thread, thr, prev_fan,
                   prev_seat, hist, tracing, session>>
    /\ UNCHANGED <<pcaVars, nvmVars, appVars>>

(***************************************************************************)
(* battery/main_rp.py: the application state and its helpers              *)
(***************************************************************************)
\* USER_ADDRS
USER_ADDRS == <<34, 36, 38, 40, 42, 44, 46, 48, 50>>

\* the on/off words and the temperature words the model puts in the device
OnOffWords == {42435}
TempSamples == {<<4660, 0, 0, 0, 0, 0, 0, 65280>>}

\* faults of one poll cycle: read number `at` (0 = none) raises, or its
\* response comes back cut by `short` bytes
SpiFaults ==
    {[at |-> 0, kind |-> "none", short |-> 0]} \cup
    [at : {1}, kind : {"raise"}, short : {0}] \cup
    [at : {9}, kind : {"short"}, short : {MaxShort}]

\* the faults of the expander calls the application makes
AppInitEnvs == {e \in Envs(BOOLEAN, 12, {REG_OUT1}, {FALSE}) : e.fail_at \in {0, 1, 12}}
AppOutEnvs == {e \in Envs({FALSE}, 4, {REG_OUT1}, {FALSE}) : e.fail_at \in {0, 3}}
AppShutEnvs == {e \in Envs({FALSE}, 2, {}, BOOLEAN) : e.fail_at \in {0, 1}}

\* the lights off and the texts "-", as built and as Stop leaves them
ShownOff == [on |-> [n \in 1..16 |-> FALSE], temp |-> [n \in 1..16 |-> -1]]

Ran(actor, ev) == [actor |-> actor, ev |-> ev]

\* a mutant: the detect input always reads high
gpio_get_vdet_AlwaysHigh == TRUE

\* gpio_get_vdet: the pin, or False when GPIO.input raises
gpio_get_vdet == IF gpio_claimed THEN vdet_pin ELSE FALSE

\* a mutant: the pin driven to the opposite level
gpio_set_reset_Inverted(level) == IF gpio_claimed THEN ~level ELSE reset_pin

\* gpio_set_reset: drives the pin; an error of GPIO.output is swallowed
gpio_set_reset(level) == IF gpio_claimed THEN level ELSE reset_pin

\* one read_nvm1(0x04, addr, 1) of the cycle and int(hex, 16) & 0xFFFF:
\* [raised, value]
WordRead(word, addr, fault, i) ==
    LET r == read_nvm1([words |-> <<word>>, short |-> IF fault.at = i THEN fault.short ELSE 0],
                       4, addr, 1)
    IN IF (fault.at = i /\ fault.kind = "raise") \/ Len(r.out) = 0
       THEN [raised |-> TRUE, value |-> 0]
       ELSE [raised |-> FALSE, value |-> int16(r.out) % 65536]

\* a mutant: the temperature bytes of a pair are swapped
TempOf_Swapped(no, word) == IF no % 2 = 1 THEN (word \div 256) % 256 ELSE word % 256

\* temp_val of channel `no` from the word of its pair
TempOf(no, word) == IF no % 2 = 1 THEN word % 256 ELSE (word \div 256) % 256

\* The reads and the decoding of one pass of spi_reader_task's loop:
\* [ok, reads, on_off_word, shown]
ChannelCycle(onoff, temps, fault) ==
    LET mem == [i \in 1..9 |-> IF i = 1 THEN onoff ELSE temps[i - 1]]
        rd == [i \in 1..9 |-> WordRead(mem[i], USER_ADDRS[i], fault, i)]
        bad == {i \in 1..9 : rd[i].raised}
        firstBad == CHOOSE i \in bad : \A j \in bad : i <= j
        on_off_word == rd[1].value
        temp_words == [a \in {USER_ADDRS[i] : i \in 2..9} |->
                          rd[CHOOSE i \in 2..9 : USER_ADDRS[i] = a].value]
    IN IF bad # {}
       THEN [ok |-> FALSE, reads |-> firstBad, on_off_word |-> 0, shown |-> ShownOff]
       ELSE [ok |-> TRUE, reads |-> 9, on_off_word |-> on_off_word,
             shown |-> [on |-> [n \in 1..16 |-> (on_off_word \div (2 ^ (n - 1))) % 2 = 1],
                        temp |-> [n \in 1..16 |->
                                     TempOf(n, temp_words[36 + 2 * ((n - 1) \div 2)])]]]

\* the passes the loop can make over the sampled memory and faults
Cycles ==
    {ChannelCycle(onoff, temps, fault) :
        onoff \in OnOffWords, temps \in TempSamples, fault \in SpiFaults}

NoHot == [pulse |-> 0, init_wait |-> 0, edge |-> FALSE]

AppIdle ==
    /\ vdet_pin = FALSE /\ reset_pin = FALSE /\ gpio_claimed = FALSE
    /\ vdet_state = FALSE /\ reset_state = FALSE /\ i2c_ready = FALSE
    /\ app_running = FALSE /\ spi_running = FALSE
    /\ spi_task = "none" /\ spi_ctrl = "None" /\ spi_en = FALSE
    /\ seq = "exit" /\ hot = NoHot
    /\ stopw = "idle" /\ closing = "idle"
    /\ buttons = [play |-> FALSE, stop |-> FALSE]
    /\ shown = ShownOff
    /\ last = Ran("none", <<>>)
    /\ moved = FALSE
    /\ sdlog = <<>>

\* main(): GPIO set up, vdet_state read once, reset low, the poll task started
AppInit ==
    /\ vdet_pin \in BOOLEAN
    /\ reset_pin = FALSE /\ gpio_claimed = TRUE
    /\ vdet_state = vdet_pin /\ reset_state = FALSE /\ i2c_ready = FALSE
    /\ app_running = TRUE /\ spi_running = FALSE
    /\ spi_task = "none" /\ spi_ctrl = "None" /\ spi_en = FALSE
    /\ seq = "sleep" /\ hot = NoHot
    /\ stopw = "idle" /\ closing = "idle"
    /\ buttons = [play |-> TRUE, stop |-> FALSE]
    /\ shown = ShownOff
    /\ last = Ran("none", <<>>)
    /\ moved = FALSE
    /\ sdlog = <<>>
    /\ PcaIdle /\ NvmIdle /\ DrvIdle

\* what a run of bus traffic did, without the registers and the values
Kinds(ops) == [i \in DOMAIN ops |-> ops[i].op]

\* the shutdown events a run of bus traffic stands for
SdOfOps(ops) ==
    LET name(o) == CASE o.op = "open" -> "i2c_open"
                     [] o.op \in {"close", "close_err"} -> "i2c_close"
                     [] o.op \in {"write", "write_err"} /\ o.reg \in {REG_OUT0, REG_OUT1}
                            /\ o.val = 0 -> "outputs_off"
                     [] OTHER -> "other"
    IN [i \in DOMAIN ops |-> name(ops[i])]

RECURSIVE SdAdd(_, _)
\* the log with the first occurrence of each new event appended
SdAdd(log, names) ==
    IF names = <<>> THEN log
    ELSE IF Head(names) = "other" \/ \E i \in DOMAIN log : log[i] = Head(names)
         THEN SdAdd(log, Tail(names))
         ELSE SdAdd(Append(log, Head(names)), Tail(names))

\* events are logged once the window-close cleanup has begun
Noted(names) == IF closing = "idle" THEN sdlog ELSE SdAdd(sdlog, names)

\* "if not state.pca.initialized: ok = init_device(); i2c_ready = ok
\*  else: i2c_ready = True", as the sequencer and the hot reset both run it
EnsureInit(actor, before) ==
    IF ~pca.initialized
    THEN \E env \in AppInitEnvs :
            LET m == init_device(Start(pca, dev, env))
            IN /\ pca' = Fields(m)
               /\ dev' = m.dev
               /\ i2c_ready' = m.ret
               /\ last' = Ran(actor, before \o <<"init_device">> \o Kinds(m.ops))
    ELSE /\ i2c_ready' = TRUE
         /\ last' = Ran(actor, before)
         /\ UNCHANGED <<pca, dev>>

\* the detect input changes level
VdetChange ==
    /\ vdet_pin' = ~vdet_pin
    /\ moved' = (moved \/ seq \in {"rise_wait1", "rise_wait2"})
    /\ hot' = [hot EXCEPT !.edge = @ \/ hot.pulse + hot.init_wait > 0]
    /\ UNCHANGED <<reset_pin, gpio_claimed, vdet_state, reset_state, i2c_ready,
                   app_running, spi_running, spi_task, spi_ctrl, spi_en, seq,
                   stopw, closing, buttons, shown, last, sdlog>>
    /\ UNCHANGED <<pcaVars, nvmVars, drvVars>>

\* gpio_poll_task: the loop test and one sample, up to the next await
SeqSample ==
    /\ seq = "sleep"
    /\ IF ~app_running
       THEN /\ seq' = "exit"
            /\ last' = Ran("seq", <<>>)
            /\ UNCHANGED <<vdet_state, reset_pin, reset_state>>
       ELSE LET vdet_now == gpio_get_vdet
            IN IF vdet_now # vdet_state
               THEN /\ vdet_state' = vdet_now
                    /\ IF vdet_now
                       THEN /\ seq' = "rise_wait1"
                            /\ last' = Ran("seq", <<"rising">>)
                            /\ UNCHANGED <<reset_pin, reset_state>>
                       ELSE /\ reset_pin' = gpio_set_reset(FALSE)
                            /\ reset_state' = FALSE
                            /\ seq' = "sleep"
                            /\ last' = Ran("seq", <<"falling", "reset_low">>)
               ELSE /\ last' = Ran("seq", <<>>)
                    /\ UNCHANGED <<vdet_state, reset_pin, reset_state, seq>>
    /\ UNCHANGED <<vdet_pin, gpio_claimed, i2c_ready, app_running, spi_running, spi_task,
                   spi_ctrl, spi_en, hot, stopw, closing, buttons, shown, moved, sdlog>>
    /\ UNCHANGED <<pcaVars, nvmVars, drvVars>>

\* gpio_poll_task, rising edge: after the first 100 ms, RESET high
SeqRiseAssert ==
    /\ seq = "rise_wait1"
    /\ reset_pin' = gpio_set_reset(TRUE)
    /\ reset_state' = TRUE
    /\ seq' = "rise_wait2"
    /\ last' = Ran("seq", <<"reset_high">>)
    /\ UNCHANGED <<vdet_pin, gpio_claimed, vdet_state, i2c_ready, app_running, spi_running,
                   spi_task, spi_ctrl, spi_en, hot, stopw, closing, buttons, shown,
                   moved, sdlog>>
    /\ UNCHANGED <<pcaVars, nvmVars, drvVars>>

\* gpio_poll_task, rising edge: after the second 100 ms, the expander
SeqRiseInit ==
    /\ seq = "rise_wait2"
    /\ EnsureInit("seq", <<>>)
    /\ seq' = "sleep"
    /\ moved' = FALSE
    /\ UNCHANGED <<vdet_pin, reset_pin, gpio_claimed, vdet_state, reset_state, app_running,
                   spi_running, spi_task, spi_ctrl, spi_en, hot, stopw, closing,
                   buttons, shown, sdlog>>
    /\ UNCHANGED <<call, nvmVars, drvVars>>

\* a mutant: the click stores the level it read in state.vdet_state
HotVdetState_Stored(vdet_now) == vdet_now

\* on_hot_reset_click reads the detect input into the local vdet_now and
\* leaves state.vdet_state as it is
HotVdetState(vdet_now) == vdet_state

\* on_hot_reset_click, and do_hot_reset up to its first await, with at most
\* `cap` hot resets in flight
HotClickN(cap) ==
    /\ closing # "done"
    /\ IF gpio_get_vdet
       THEN /\ hot.pulse + hot.init_wait < cap
            /\ hot' = [hot EXCEPT !.pulse = @ + 1]
            /\ last' = Ran("hot", <<"reset_low">>)
       ELSE /\ last' = Ran("hot_refused", <<"reset_low", "notice">>)
            /\ UNCHANGED hot
    /\ vdet_state' = HotVdetState(gpio_get_vdet)
    /\ reset_pin' = gpio_set_reset(FALSE)
    /\ reset_state' = FALSE
    /\ UNCHANGED <<vdet_pin, gpio_claimed, i2c_ready, app_running, spi_running,
                   spi_task, spi_ctrl, spi_en, seq, stopw, closing, buttons, shown, moved,
                   sdlog>>
    /\ UNCHANGED <<pcaVars, nvmVars, drvVars>>

HotClick == HotClickN(MaxHot)

\* a click that may come while an earlier hot reset is still in its waits
HotClickRace == HotClickN(MaxOverlap)

\* do_hot_reset: after 500 ms, RESET high
HotPulseEnd ==
    /\ hot.pulse > 0
    /\ hot' = [hot EXCEPT !.pulse = @ - 1, !.init_wait = @ + 1]
    /\ reset_pin' = gpio_set_reset(TRUE)
    /\ reset_state' = TRUE
    /\ last' = Ran("hot", <<"reset_high">>)
    /\ UNCHANGED <<vdet_pin, gpio_claimed, vdet_state, i2c_ready, app_running, spi_running,
                   spi_task, spi_ctrl, spi_en, seq, stopw, closing, buttons, shown,
                   moved, sdlog>>
    /\ UNCHANGED <<pcaVars, nvmVars, drvVars>>

\* do_hot_reset: after 100 ms more, the expander
HotInit ==
    /\ hot.init_wait > 0
    /\ hot' = [hot EXCEPT !.init_wait = @ - 1,
                           !.edge = @ /\ hot.pulse + hot.init_wait > 1]
    /\ EnsureInit("hot", <<>>)
    /\ UNCHANGED <<vdet_pin, reset_pin, gpio_claimed, vdet_state, reset_state, app_running,
                   spi_running, spi_task, spi_ctrl, spi_en, seq, stopw, closing,
                   buttons, shown, moved, sdlog>>
    /\ UNCHANGED <<call, nvmVars, drvVars>>

\* a mutant: the gate without the reset line
SpiGate_NoReset(initialized, ready, vdet, reset) == initialized /\ ready /\ vdet

\* the condition under which a decoded bitmap goes to the expander
SpiGate(initialized, ready, vdet, reset) == initialized /\ ready /\ vdet /\ reset

\* a mutant: the expander written before the readings are assigned
SpiPass_WriteFirst(ops, verdict) ==
    <<"spi_read", "set_outputs_16">> \o ops \o <<verdict, "ui_assign", "page_update">>

\* what a pass with the gate open does, in order: the nine reads, the
\* assignments to the lights and texts, set_outputs_16 with its bus
\* traffic and its verdict, page.update()
SpiPass(ops, verdict) ==
    <<"spi_read", "ui_assign", "set_outputs_16">> \o ops \o <<verdict, "page_update">>

\* one pass of spi_reader_task's loop body: nine reads, the sixteen
\* channels, the expander when the gate holds, the page
SpiCycle(before) ==
    \E c \in Cycles :
           IF ~c.ok
           THEN /\ last' = Ran("spi", before \o <<"spi_read", "spi_error">>)
                /\ UNCHANGED <<shown, pca, dev>>
           ELSE /\ shown' = c.shown
                /\ IF SpiGate(pca.initialized, i2c_ready, vdet_state, reset_state)
                   THEN \E env \in AppOutEnvs :
                           LET m == set_outputs_16(Start(pca, dev, env), c.on_off_word)
                           IN /\ pca' = Fields(m)
                              /\ dev' = m.dev
                              /\ last' = Ran("spi", before
                                                \o SpiPass(Kinds(m.ops),
                                                           IF m.ret THEN "verified"
                                                           ELSE "verify_failed"))
                   ELSE /\ last' = Ran("spi", before
                                          \o <<"spi_read", "ui_assign",
                                               "page_update">>)
                        /\ UNCHANGED <<pca, dev>>

\* a mutant: the port closed before the enable pin is released
SpiFinally_CloseFirst == <<"spi_close", "spi_en_release">>

\* spi_reader_task's finally block with a controller: GPIO27 cleanup, then
\* the SPI port
SpiFinally == <<"spi_en_release", "spi_close">>

\* on_play_click, and spi_reader_task up to its first await
PlayClick ==
    /\ buttons.play
    /\ closing # "done"
    /\ buttons' = [play |-> FALSE, stop |-> TRUE]
    /\ IF spi_task \in {"none", "done"}
       THEN \E setup \in {"ok", "en_fails", "ctrl_fails"} :
               IF setup = "ok"
               THEN /\ spi_en' = TRUE
                    /\ spi_ctrl' = "open"
                    /\ spi_running' = TRUE
                    /\ spi_task' = "sleep"
                    /\ SpiCycle(<<"spi_en_high", "spi_open">>)
                    /\ sdlog' = sdlog
               ELSE /\ spi_en' = FALSE
                    /\ spi_ctrl' = "None"
                    /\ spi_task' = "done"
                    /\ last' = Ran("spi", <<setup, "spi_en_release">>)
                    /\ sdlog' = Noted(<<"spi_en_release">>)
                    /\ UNCHANGED <<spi_running, shown, pca, dev>>
       ELSE /\ last' = Ran("play", <<>>)
            /\ UNCHANGED <<spi_en, spi_ctrl, spi_running, spi_task, shown, pca, dev, sdlog>>
    /\ UNCHANGED <<vdet_pin, reset_pin, gpio_claimed, vdet_state, reset_state, i2c_ready,
                   app_running, seq, hot, stopw, closing, moved>>
    /\ UNCHANGED <<call, nvmVars, drvVars>>

\* spi_reader_task after a sleep: the loop test, then one more pass or the
\* finally block
SpiWake ==
    /\ spi_task = "sleep"
    /\ IF spi_running
       THEN /\ SpiCycle(<<>>)
            /\ UNCHANGED <<spi_task, spi_en, spi_ctrl, sdlog>>
       ELSE /\ spi_en' = FALSE
            /\ spi_ctrl' = "None"
            /\ spi_task' = "done"
            /\ last' = Ran("spi", SpiFinally)
            /\ sdlog' = Noted(SpiFinally)
            /\ UNCHANGED <<shown, pca, dev>>
    /\ UNCHANGED <<vdet_pin, reset_pin, gpio_claimed, vdet_state, reset_state, i2c_ready,
                   app_running, spi_running, seq, hot, stopw, closing, buttons, moved>>
    /\ UNCHANGED <<call, nvmVars, drvVars>>

\* a mutant: Stop drives the expander whatever its state
StopForcesOff_Always(initialized) == TRUE

\* do_stop: "if state.pca.initialized:"
StopForcesOff(initialized) == initialized

\* do_stop once its wait is over: the display reset, the outputs forced
\* off if the expander is initialised, Play enabled again
StopRest ==
    /\ shown' = ShownOff
    /\ IF StopForcesOff(pca.initialized)
       THEN \E env \in AppOutEnvs :
               LET m == set_outputs_16(Start(pca, dev, env), 0)
               IN /\ pca' = Fields(m)
                  /\ dev' = m.dev
                  /\ last' = Ran("stop", <<"set_outputs_16">> \o Kinds(m.ops)
                                            \o <<(IF m.ret THEN "verified" ELSE "verify_failed")>>)
       ELSE /\ last' = Ran("stop", <<>>)
            /\ UNCHANGED <<pca, dev>>
    /\ buttons' = [buttons EXCEPT !.play = TRUE, !.stop = FALSE]
    /\ stopw' = "idle"

\* on_stop_click, and do_stop up to its first await
StopClick ==
    /\ buttons.stop
    /\ closing # "done"
    /\ stopw = "idle"
    /\ spi_running' = FALSE
    /\ IF spi_task = "sleep"
       THEN /\ stopw' = "wait"
            /\ buttons' = [buttons EXCEPT !.stop = FALSE]
            /\ last' = Ran("stop_wait", <<>>)
            /\ UNCHANGED <<shown, pca, dev>>
       ELSE StopRest
    /\ UNCHANGED <<vdet_pin, reset_pin, gpio_claimed, vdet_state, reset_state, i2c_ready,
                   app_running, spi_task, spi_ctrl, spi_en, seq, hot, closing,
                   moved, sdlog>>
    /\ UNCHANGED <<call, nvmVars, drvVars>>

\* do_stop leaving its wait: the task is done, or 1.5 s have passed
StopFinish ==
    /\ stopw = "wait"
    /\ StopRest
    /\ UNCHANGED <<vdet_pin, reset_pin, gpio_claimed, vdet_state, reset_state, i2c_ready,
                   app_running, spi_running, spi_task, spi_ctrl, spi_en, seq, hot,
                   closing, moved, sdlog>>
    /\ UNCHANGED <<call, nvmVars, drvVars>>

\* do_cleanup_and_close once its wait is over: shutdown_safe, the release
\* of VDET and RESET, the window
CloseRest(log) ==
    \E env \in AppShutEnvs :
        LET m == shutdown_safe(Start(pca, dev, env))
        IN /\ pca' = Fields(m)
           /\ dev' = m.dev
           /\ gpio_claimed' = FALSE
           /\ closing' = "done"
           /\ last' = Ran("close", <<"shutdown_safe">> \o Kinds(m.ops)
                                      \o <<"gpio_release", "window_destroy">>)
           /\ sdlog' = SdAdd(log, <<"wait_over", "shutdown_safe">> \o SdOfOps(m.ops)
                                      \o <<"gpio_release", "destroy">>)

\* on_window_event("close"), and do_cleanup_and_close up to its first await
CloseBegin ==
    /\ closing = "idle"
    /\ app_running' = FALSE
    /\ spi_running' = FALSE
    /\ IF spi_task = "sleep"
       THEN /\ closing' = "wait"
            /\ sdlog' = <<"cancel">>
            /\ last' = Ran("close_wait", <<>>)
            /\ UNCHANGED <<pca, dev, gpio_claimed>>
       ELSE CloseRest(<<"cancel">>)
    /\ UNCHANGED <<vdet_pin, reset_pin, vdet_state, reset_state, i2c_ready, spi_task,
                   spi_ctrl, spi_en, seq, hot, stopw, buttons, shown, moved>>
    /\ UNCHANGED <<call, nvmVars, drvVars>>

\* do_cleanup_and_close leaving its wait: the task is done, or 1.5 s have
\* passed
CloseFinish ==
    /\ closing = "wait"
    /\ CloseRest(sdlog)
    /\ UNCHANGED <<vdet_pin, reset_pin, vdet_state, reset_state, i2c_ready, app_running,
                   spi_running, spi_task, spi_ctrl, spi_en, seq, hot, stopw, buttons,
                   shown, moved>>
    /\ UNCHANGED <<call, nvmVars, drvVars>>

AppNext ==
    \/ VdetChange
    \/ SeqSample
    \/ SeqRiseAssert
    \/ SeqRiseInit
    \/ HotClick
    \/ HotPulseEnd
    \/ HotInit
    \/ PlayClick
    \/ SpiWake
    \/ StopClick
    \/ StopFinish
    \/ CloseBegin
    \/ CloseFinish

Spec == AppInit /\ [][AppNext]_vars

\* the detect line, the sequencer and the hot reset alone, with overlapping
\* hot resets
ResetNext ==
    \/ VdetChange
    \/ SeqSample
    \/ SeqRiseAssert
    \/ SeqRiseInit
    \/ HotClickRace
    \/ HotPulseEnd
    \/ HotInit

SpecReset == AppInit /\ [][ResetNext]_vars

(***************************************************************************)
(* SpecCycle: one pass of spi_reader_task's reads and channel decoding,    *)
(* over sampled register contents and read faults.                         *)
(***************************************************************************)
\* the on/off words of the decoding study: none, one channel at either end,
\* alternating, mixed, all
CycleOnOffWords == {0, 1, 2, 32768, 21845, 42435, 65535}

\* its temperature words: 0x1234 first; channel k holding k; each pair
\* holding its register address in one byte only; all bytes 0xFF
CycleTempWords ==
    {<<4660, 0, 0, 0, 0, 0, 0, 65280>>,
     [i \in 1..8 |-> 256 * (2 * i) + (2 * i - 1)],
     [i \in 1..8 |-> USER_ADDRS[i + 1]],
     [i \in 1..8 |-> 256 * USER_ADDRS[i + 1]],
     [i \in 1..8 |-> 65535]}

\* its faults: the first or the last read raises, or its response comes
\* back cut by 1..MaxShort bytes
CycleFaults ==
    {[at |-> 0, kind |-> "none", short |-> 0]} \cup
    [at : {1, 9}, kind : {"raise"}, short : {0}] \cup
    [at : {1, 9}, kind : {"short"}, short : 1..MaxShort]

CycleInit ==
    /\ \E onoff \in CycleOnOffWords, temps \in CycleTempWords, fault \in CycleFaults :
          cyc = [NoCycle EXCEPT !.onoff = onoff, !.temps = temps, !.fault = fault]
    /\ nvm = [words |-> <<>>, count |-> 0, short |-> 0, a |-> NotRead, b |-> NotRead,
              done |-> {}]
    /\ wside = NoWrites
    /\ PcaIdle /\ DrvIdle /\ AppIdle

\* the try block of one pass, up to the last text assignment
CycleRead ==
    /\ ~cyc.done
    /\ LET c == ChannelCycle(cyc.onoff, cyc.temps, cyc.fault)
       IN cyc' = [cyc EXCEPT !.done = TRUE, !.ok = c.ok,
                             !.shown = IF c.ok THEN c.shown ELSE <<>>]
    /\ UNCHANGED <<nvm, wside, pcaVars, drvVars, appVars>>

CycleNext == CycleRead

SpecCycle == CycleInit /\ [][CycleNext]_vars

\* C19: channel k (1..16) is on iff bit k-1 of the on/off word is set, and
\* its temperature is the low byte (k odd) or the high byte (k even) of the
\* word at register 0x24 + 2*floor((k-1)/2).
C19_ChannelDecode ==
    (cyc.done /\ cyc.fault.kind = "none") =>
        /\ cyc.ok
        /\ \A k \in 1..16 :
             LET reg == 36 + 2 * ((k - 1) \div 2)
                 word == cyc.temps[(reg - 36) \div 2 + 1]
                 low == word - 256 * (word \div 256)
                 high == word \div 256
             IN /\ cyc.shown.on[k] <=> (cyc.onoff % (2 ^ k)) >= 2 ^ (k - 1)
                /\ cyc.shown.temp[k] = IF k \in {1, 3, 5, 7, 9, 11, 13, 15} THEN low ELSE high

\* the example: on/off 0x0001, first temperature word 0x1234
C19_Witness ==
    /\ cyc.done /\ cyc.ok /\ cyc.fault.kind = "none"
    /\ cyc.onoff = 1 /\ cyc.temps[1] = 4660
    /\ cyc.shown.on[1] /\ cyc.shown.temp[1] = 52
    /\ ~cyc.shown.on[2] /\ cyc.shown.temp[2] = 18

(***************************************************************************)
(* SpecPca: the controller's methods, called in any order with any         *)
(* environment.                                                            *)
(***************************************************************************)
Called(name, mask, m) ==
    [op |-> name, mask |-> mask, pre |-> pca, predev |-> dev, ret |-> m.ret,
     raised |-> m.exc, ops |-> m.ops]

PcaInit == PcaIdle /\ NvmIdle /\ DrvIdle /\ AppIdle

CallInitDevice ==
    \E env \in Envs(BOOLEAN, 12, Regs, {FALSE}) :
        LET m == init_device(Start(pca, dev, env))
        IN /\ pca' = Fields(m)
           /\ dev' = m.dev
           /\ call' = Called("init_device", 0, m)
           /\ UNCHANGED <<nvmVars, drvVars, appVars>>

CallSetOutputs ==
    \E mask \in Masks, env \in Envs({FALSE}, 4, {REG_OUT0, REG_OUT1}, {FALSE}) :
        LET m == set_outputs_16(Start(pca, dev, env), mask)
        IN /\ pca' = Fields(m)
           /\ dev' = m.dev
           /\ call' = Called("set_outputs_16", mask, m)
           /\ UNCHANGED <<nvmVars, drvVars, appVars>>

CallShutdownSafe ==
    \E env \in Envs({FALSE}, 2, {}, BOOLEAN) :
        LET m == shutdown_safe(Start(pca, dev, env))
        IN /\ pca' = Fields(m)
           /\ dev' = m.dev
           /\ call' = Called("shutdown_safe", 0, m)
           /\ UNCHANGED <<nvmVars, drvVars, appVars>>

PcaNext == CallInitDevice \/ CallSetOutputs \/ CallShutdownSafe

SpecPca == PcaInit /\ [][PcaNext]_vars

\* the bus transfers of the last call that are of one of the given kinds
OpsOf(kinds) == SelectSeq(call.ops, LAMBDA o : o.op \in kinds)

\* the last call read a register back as a byte other than the one it wrote
ReadbackDiffers ==
    \E i, j \in DOMAIN call.ops :
        /\ i < j
        /\ call.ops[i].op = "write" /\ call.ops[j].op = "read"
        /\ call.ops[i].reg = call.ops[j].reg
        /\ call.ops[i].val # call.ops[j].val

BusErrorInCall == OpsOf({"write_err", "read_err", "open_err"}) # <<>>

(***************************************************************************)
(* C1: a set_outputs write-verify sequence whose readback differs from the *)
(* byte written, or that hits a bus error part-way, returns false and      *)
(* leaves the driver's state (bus handle, initialized) as it was before    *)
(* the call; nothing propagates to the caller.                             *)
(***************************************************************************)
C1_FailedVerifyLeavesState ==
    (call.op = "set_outputs_16" /\ (ReadbackDiffers \/ BusErrorInCall))
        => (call.ret = FALSE /\ pca = call.pre /\ ~call.raised)

\* a verify that failed on bank 1 alone, after both writes went through
C1_Witness ==
    /\ call.op = "set_outputs_16" /\ call.mask = 4660
    /\ Len(OpsOf({"write"})) = 2 /\ Len(OpsOf({"read"})) = 2
    /\ call.ops[3].val = call.ops[1].val
    /\ call.ops[4].val # call.ops[2].val
    /\ call.ret = FALSE

(***************************************************************************)
(* C2: init_device returns true, and sets initialized, if and only if it   *)
(* wrote 0x00 to the six registers and all six readbacks were 0x00; any    *)
(* mismatch or bus error gives false and initialized = false.              *)
(***************************************************************************)
C2_InitTrueIffSixReadbacksZero ==
    call.op = "init_device" =>
        LET rd == OpsOf({"read"})
            wr == OpsOf({"write"})
            sixZero ==
                /\ {rd[i].reg : i \in DOMAIN rd} = Regs
                /\ \A i \in DOMAIN rd : rd[i].val = 0
                /\ \A r \in Regs : \E i \in DOMAIN wr : wr[i].reg = r /\ wr[i].val = 0
        IN /\ call.ret = sixZero
           /\ pca.initialized = call.ret
           /\ ~call.raised

\* an init that succeeded, and one that failed on a single readback
C2_Witness ==
    /\ call.op = "init_device" /\ call.ret = TRUE /\ pca.initialized
    /\ Len(OpsOf({"read"})) = 6

C2_WitnessMismatch ==
    /\ call.op = "init_device" /\ call.ret = FALSE /\ ~pca.initialized
    /\ Len(OpsOf({"read"})) = 6
    /\ Cardinality({i \in DOMAIN call.ops : call.ops[i].op = "read" /\ call.ops[i].val # 0}) = 1

(***************************************************************************)
(* C11: after shutdown_safe the bus handle is released and initialized is  *)
(* false whatever failed on the way (a write of the zeroing, the close     *)
(* itself), and nothing is raised to the caller.                           *)
(***************************************************************************)
C11_ShutdownAlwaysReleases ==
    call.op = "shutdown_safe" =>
        (pca.bus = "None" /\ ~pca.initialized /\ ~call.raised)

\* a shutdown of an initialised expander whose first zeroing write failed
\* and whose close failed as well
C11_Witness ==
    /\ call.op = "shutdown_safe"
    /\ call.pre.bus = "SMBus" /\ call.pre.initialized
    /\ OpsOf({"write_err"}) # <<>> /\ OpsOf({"close_err"}) # <<>>
    /\ pca.bus = "None" /\ ~pca.initialized

(***************************************************************************)
(* C12: shutdown_safe on a driver without a bus handle (after an earlier   *)
(* shutdown, or never opened) makes no bus access, raises nothing and      *)
(* leaves the driver and the device as they were.                          *)
(***************************************************************************)
C12_ShutdownIdempotent ==
    (call.op = "shutdown_safe" /\ call.pre.bus = "None") =>
        /\ call.ops = <<>>
        /\ ~call.raised
        /\ pca = call.pre
        /\ dev = call.predev
        /\ pca = [bus |-> "None", initialized |-> FALSE]

\* a second shutdown: the device had been configured through a bus that an
\* earlier shutdown closed
C12_Witness ==
    /\ call.op = "shutdown_safe" /\ call.pre.bus = "None"
    /\ dev[REG_CFG0] = 0 /\ dev[REG_CFG1] = 0
    /\ call.ops = <<>>

(***************************************************************************)
(* C13: set_outputs_16 on a driver that is not initialised, or has no bus  *)
(* handle, returns false without a register write or read, for every mask. *)
(***************************************************************************)
C13_RefusesWhenNotInitialized ==
    (call.op = "set_outputs_16" /\ (call.pre.bus = "None" \/ ~call.pre.initialized)) =>
        /\ ~call.ret /\ ~call.raised
        /\ call.ops = <<>>
        /\ dev = call.predev
        /\ pca = call.pre

\* a call with the bus open after an init that failed
C13_Witness ==
    /\ call.op = "set_outputs_16" /\ call.mask = 65280
    /\ call.pre.bus = "SMBus" /\ ~call.pre.initialized
    /\ ~call.ret /\ call.ops = <<>>

(***************************************************************************)
(* C14: on an initialised driver set_outputs_16(mask) writes bits 0-7 to   *)
(* output register 0, bits 8-15 to output register 1, reads both back and  *)
(* returns true exactly when both readbacks equal the bytes written; a     *)
(* bus error ends the sequence where it occurs and gives false.            *)
(***************************************************************************)
C14_SplitWriteVerify ==
    (call.op = "set_outputs_16" /\ call.pre.bus = "SMBus" /\ call.pre.initialized) =>
        LET lo == call.mask % 256
            hi == (call.mask \div 256) % 256
            plan == <<[op |-> "write", reg |-> REG_OUT0, val |-> lo],
                      [op |-> "write", reg |-> REG_OUT1, val |-> hi],
                      [op |-> "read", reg |-> REG_OUT0],
                      [op |-> "read", reg |-> REG_OUT1]>>
            n == Len(call.ops)
            done(i) == call.ops[i].op = plan[i].op /\ call.ops[i].reg = plan[i].reg
                          /\ (i <= 2 => call.ops[i].val = plan[i].val)
            failed(i) == call.ops[i].op = (IF i <= 2 THEN "write_err" ELSE "read_err")
                            /\ call.ops[i].reg = plan[i].reg
        IN /\ n \in 1..4
           /\ \A i \in 1..(n - 1) : done(i)
           /\ IF n = 4 THEN done(4) \/ failed(4) ELSE failed(n)
           /\ call.ret <=> (n = 4 /\ done(4)
                              /\ call.ops[3].val = lo /\ call.ops[4].val = hi)
           /\ (n >= 1 /\ done(1)) => dev[REG_OUT0] = lo
           /\ (n >= 2 /\ done(2)) => dev[REG_OUT1] = hi

\* a verified write of 0x1234: 0x34 to bank 0, 0x12 to bank 1
C14_Witness ==
    /\ call.op = "set_outputs_16" /\ call.mask = 4660 /\ call.ret
    /\ dev[REG_OUT0] = 52 /\ dev[REG_OUT1] = 18
    /\ Len(call.ops) = 4

NvmInit ==
    /\ \E words \in [1..MaxWords -> NvmWords], count \in 1..MaxWords, short \in 0..MaxShort :
          nvm = [words |-> words, count |-> count, short |-> short,
                 a |-> NotRead, b |-> NotRead, done |-> {}]
    /\ cyc = NoCycle
    /\ wside = NoWrites
    /\ PcaIdle /\ DrvIdle /\ AppIdle

\* a caller reads `count` words at 0x0422 in mode A
NvmRead1 ==
    /\ "a" \notin nvm.done
    /\ nvm' = [nvm EXCEPT !.a = read_nvm1(nvm, 4, 34, nvm.count), !.done = @ \cup {"a"}]
    /\ UNCHANGED <<cyc, wside, pcaVars, drvVars, appVars>>

\* a caller reads `count` words at 0x0422 in mode B
NvmRead4 ==
    /\ "b" \notin nvm.done
    /\ nvm' = [nvm EXCEPT !.b = read_nvm4(nvm, 4, 34, nvm.count), !.done = @ \cup {"b"}]
    /\ UNCHANGED <<cyc, wside, pcaVars, drvVars, appVars>>

NvmNext == NvmRead1 \/ NvmRead4

SpecNvm == NvmInit /\ [][NvmNext]_vars

(***************************************************************************)
(* C8: fed the full-length response of one device, read_nvm1 and read_nvm4 *)
(* each return exactly `count` 16-bit values, and the same ones, for every *)
(* word count of the range.                                                *)
(***************************************************************************)
C8_BothModesReturnCountWords ==
    (nvm.done = {"a", "b"} /\ nvm.short = 0) =>
        /\ ~nvm.a.raised /\ ~nvm.b.raised
        /\ Len(WordsOfHex(nvm.a.out)) = nvm.count
        /\ Len(WordsOfHex(nvm.b.out)) = nvm.count
        /\ WordsOfHex(nvm.a.out) = WordsOfHex(nvm.b.out)

\* what does hold: mode B returns the `count` register words, and mode A the
\* same words as far as its shorter transfer reaches
C8_ModeAIsPrefixOfModeB ==
    (nvm.done = {"a", "b"} /\ nvm.short = 0) =>
        LET wa == WordsOfHex(nvm.a.out)
            wb == WordsOfHex(nvm.b.out)
        IN /\ wb = SubSeq(nvm.words, 1, nvm.count)
           /\ Len(wa) = (nvm.count + 1) \div 2
           /\ wa = SubSeq(wb, 1, Len(wa))

C8_Witness ==
    /\ nvm.done = {"a", "b"} /\ nvm.short = 0 /\ nvm.count = 2
    /\ Len(WordsOfHex(nvm.a.out)) = 1
    /\ Len(WordsOfHex(nvm.b.out)) = 2

\* C18: read_nvm4 raises its short-response error, and returns no data,
\* exactly when the response holds fewer than 4 + 4*count bytes.
C18_ShortResponseIffTooFewBytes ==
    "b" \in nvm.done =>
        LET resp == xfer2(nvm, nvm.b.tx)
        IN /\ nvm.b.raised <=> Len(resp) < 4 + 4 * nvm.count
           /\ nvm.b.raised => nvm.b.out = <<>>
           /\ ~nvm.b.raised => Len(nvm.b.out) = 4 * nvm.count

\* a response one byte short of three words is refused
C18_Witness ==
    /\ "b" \in nvm.done /\ nvm.count = 3 /\ nvm.short = 1
    /\ Len(xfer2(nvm, nvm.b.tx)) = 15
    /\ nvm.b.raised /\ nvm.b.out = <<>>

(***************************************************************************)
(* SpecWrite: a caller of the controller's write side, calling             *)
(* enable_write_nvm and write_nvm_user_memory in any order.                *)
(***************************************************************************)
\* the byte lists written: none, one word, two words, two words and a byte
WriteData == {<<>>, <<1, 2>>, <<1, 2, 3, 4>>, <<171, 205, 239, 1, 35>>}

WriteOffsets == {0, 2}

WriteInit == PcaIdle /\ NvmIdle /\ DrvIdle /\ AppIdle

CallEnableWrite ==
    /\ wside.n < MaxCalls
    /\ wside' = [wside EXCEPT !.n = @ + 1, !.log = enable_write_nvm(wside.log)]
    /\ UNCHANGED <<nvm, cyc, pcaVars, drvVars, appVars>>

\* start: where the call's transfers begin in the log
CallWriteUserMemory ==
    /\ wside.n < MaxCalls
    /\ \E addr_offset \in WriteOffsets, data \in WriteData :
          wside' = [n |-> wside.n + 1,
                 log |-> write_nvm_user_memory(wside.log, addr_offset, data),
                 start |-> Len(wside.log), addr_offset |-> addr_offset, data |-> data]
    /\ UNCHANGED <<nvm, cyc, pcaVars, drvVars, appVars>>

WriteNext == CallEnableWrite \/ CallWriteUserMemory

SpecWrite == WriteInit /\ [][WriteNext]_vars

IsWordWrite(e) == e.kind = "xfer" /\ e.tx[1] \div 16 = 14

IsEnable(e) == e.kind = "xfer" /\ e.tx = <<192, 0, 0, 1>>

\* what the last write_nvm_user_memory call put on the bus: one transfer a
\* word, word i at 0x22 + offset + 2*i, in increasing order of i, each
\* followed by the 8 ms sleep
WriteLayout ==
    wside.data # <<>> =>
        LET words == Len(wside.data) \div 2
        IN /\ Len(wside.log) >= wside.start + 2 * words
           /\ \A i \in 0..(words - 1) :
                 /\ wside.log[wside.start + 2 * i + 1] =
                        Xfer(<<228, 34 + wside.addr_offset + 2 * i,
                               wside.data[2 * i + 1], wside.data[2 * i + 2]>>)
                 /\ wside.log[wside.start + 2 * i + 2] = Sleep(8)
           /\ \A j \in (wside.start + 2 * words + 1)..Len(wside.log) : ~IsWordWrite(wside.log[j])

\* C28 as stated: every word-write transfer has an enable-write transfer
\* somewhere before it, and write_nvm issues one transfer a word, word i at
\* addr_lsb + 2*i in increasing order, with the settling sleep after each.
C28_WritesAsStated ==
    /\ \A i \in DOMAIN wside.log :
          IsWordWrite(wside.log[i]) => \E j \in 1..(i - 1) : IsEnable(wside.log[j])
    /\ WriteLayout

\* the bytes a string of hex digits stands for, two digits a byte
BytesOfHex(h) == [p \in 1..(Len(h) \div 2) |-> int16(SubSeq(h, 2 * p - 1, 2 * p))]

\* C24: read_nvm1 sends the 4 header bytes and 2*count zeros, drops the first
\* 2 response bytes, and word i of its result is the byte pair at offset
\* 2*(2*i+1) of the rest, high byte first, as far as the response reaches.
C24_ModeALayout ==
    "a" \in nvm.done =>
        LET resp == xfer2(nvm, nvm.a.tx)
            rest == [j \in 1..(Len(resp) - 2) |-> resp[j + 2]]
            offs == {2 * (2 * i + 1) + b : i \in 0..(nvm.count - 1), b \in {0, 1}}
            got == {j \in offs : j < Len(rest)}
            nth(p) == CHOOSE j \in got : Cardinality({x \in got : x < j}) = p - 1
            bytes == BytesOfHex(nvm.a.out)
        IN /\ ~nvm.a.raised
           /\ nvm.a.tx = <<20, 34, 0, 0>> \o [j \in 1..(2 * nvm.count) |-> 0]
           /\ Len(nvm.a.out) = 2 * Cardinality(got)
           /\ \A p \in 1..Cardinality(got) : bytes[p] = rest[nth(p) + 1]
           /\ (nvm.count = 1 /\ nvm.short = 0) =>
                  WordsOfHex(nvm.a.out) = <<256 * resp[5] + resp[6]>>

\* one word read in mode A from a complete response
C24_Witness ==
    /\ "a" \in nvm.done /\ nvm.count = 1 /\ nvm.short = 0
    /\ Len(nvm.a.tx) = 6
    /\ nvm.words[1] = 4660 /\ WordsOfHex(nvm.a.out) = <<4660>>

\* C25: read_nvm4 sends the 4 header bytes and 4*count zeros, drops the first
\* 4 response bytes, and from a response of at least 4 + 4*count bytes
\* returns exactly count words, word i the response bytes 4+4i and 5+4i;
\* the two bytes after them are in no word.
C25_ModeBLayout ==
    "b" \in nvm.done =>
        LET resp == xfer2(nvm, nvm.b.tx)
            w == WordsOfHex(nvm.b.out)
        IN /\ nvm.b.tx = <<20, 34, 0, 0>> \o [j \in 1..(4 * nvm.count) |-> 0]
           /\ Len(resp) >= 4 + 4 * nvm.count =>
                  /\ ~nvm.b.raised
                  /\ Len(nvm.b.out) = 4 * nvm.count
                  /\ Len(w) = nvm.count
                  /\ \A i \in 0..(nvm.count - 1) :
                        w[i + 1] = 256 * resp[4 + 4 * i + 1] + resp[5 + 4 * i + 1]

\* three words read in mode B
C25_Witness ==
    /\ "b" \in nvm.done /\ nvm.count = 3 /\ nvm.short = 0
    /\ nvm.words = <<4660, 171, 65535>>
    /\ WordsOfHex(nvm.b.out) = <<4660, 171, 65535>>

(***************************************************************************)
(* SpecDriver: the fan / seat application: Play, Stop and the poll threads *)
(***************************************************************************)
DrvInit == DrvIdle /\ PcaIdle /\ NvmIdle /\ AppIdle

DrvNext ==
    \/ DrvStart
    \/ \E t \in DOMAIN thr : DrvPoll(t)
    \/ \E t \in DOMAIN thr : DrvWait(t)
    \/ \E t \in DOMAIN thr : DrvThreadCleanupTest(t)
    \/ \E t \in DOMAIN thr : DrvThreadCleanupBody(t)
    \/ DrvStopBegin
    \/ DrvStopJoin
    \/ DrvStopCleanupTest
    \/ DrvStopCleanupBody
    \/ DrvStopFinish

SpecDriver == DrvInit /\ [][DrvNext]_vars

(***************************************************************************)
(* SpecDecode: one poll thread running its loop, every publication kept in *)
(* hist with the words it was decoded from.                                *)
(***************************************************************************)
DecodeInit ==
    /\ stop_event = FALSE
    /\ cleaned_up = FALSE
    /\ controller = 1
    /\ spi_open = <<TRUE>>
    /\ thread = 1
    /\ thr = <<"loop">>
    /\ prev_fan = [k \in PosSet |-> 0]
    /\ prev_seat = [k \in PosSet |-> 0]
    /\ pub = [NoUpdate EXCEPT !.kind = "tid"]
    /\ hist = <<>>
    /\ tracing = TRUE
    /\ stopper = "idle"
    /\ btn = [play |-> FALSE, stop |-> TRUE]
    /\ session = NewSession
    /\ PcaIdle /\ NvmIdle /\ AppIdle

DecodeNext == DrvPoll(1) \/ DrvWait(1)

SpecDecode == DecodeInit /\ [][DecodeNext]_vars

(***************************************************************************)
(* C7: in the fan / seat profile, for each position by itself and over any *)
(* sequence of poll cycles, a fan nibble in 0xB..0xF is replaced by the    *)
(* position's last accepted fan level and a heater nibble in 0x4..0xF by   *)
(* its last accepted heater level, the last-accepted memory changing only  *)
(* on a valid nibble; fan nibbles 3, 0xC, 5 decode to 3, 3, 5 and heater   *)
(* nibbles 1, 4, 2 to 1, 1, 2.                                             *)
(***************************************************************************)
\* the levels accepted before publication i of hist, when hist still tells
BeforeFan(i, k) == IF i = 1 THEN 0 ELSE hist[i - 1].fan[k]
BeforeSeat(i, k) == IF i = 1 THEN 0 ELSE hist[i - 1].seat[k]

C7_SentinelCarryForward ==
    /\ \A i \in DOMAIN hist : \A k \in PosSet :
          (i > 1 \/ Len(hist) < HistLen) =>
              LET f == (hist[i].w1 \div (16 ^ PosIndex(k))) % 16
                  h == (hist[i].w2 \div (16 ^ PosIndex(k))) % 16
              IN /\ hist[i].fan[k] = IF f \in 11..15 THEN BeforeFan(i, k) ELSE f
                 /\ hist[i].seat[k] = IF h \in 4..15 THEN BeforeSeat(i, k) ELSE h
    /\ hist # <<>> =>
          /\ prev_fan = hist[Len(hist)].fan
          /\ prev_seat = hist[Len(hist)].seat
    /\ (Len(hist) = 3 /\ <<hist[1].w1, hist[2].w1, hist[3].w1>> = <<3, 12, 5>>
                      /\ <<hist[1].w2, hist[2].w2, hist[3].w2>> = <<1, 4, 2>>) =>
          /\ <<hist[1].fan["FL"], hist[2].fan["FL"], hist[3].fan["FL"]>> = <<3, 3, 5>>
          /\ <<hist[1].seat["FL"], hist[2].seat["FL"], hist[3].seat["FL"]>> = <<1, 1, 2>>

\* the spec's sequence has been decoded
C7_Witness ==
    /\ Len(hist) = 3
    /\ <<hist[1].w1, hist[2].w1, hist[3].w1>> = <<3, 12, 5>>
    /\ <<hist[1].w2, hist[2].w2, hist[3].w2>> = <<1, 4, 2>>
    /\ prev_fan["FL"] = 5 /\ prev_seat["FL"] = 2

\* one position carried forward while another took a new level
C7_WitnessIndependent ==
    /\ Len(hist) >= 2
    /\ hist[Len(hist)].w1 = 45991
    /\ hist[Len(hist)].fan["RR"] = hist[Len(hist) - 1].fan["RR"]
    /\ hist[Len(hist)].fan["FL"] = 7 /\ hist[Len(hist) - 1].fan["FL"] # 7

(***************************************************************************)
(* C9: start() invoked while the polling thread is alive is a no-op: no    *)
(* second thread, no device handle re-opened, the stop signal untouched.   *)
(***************************************************************************)
C9_StartIsNoOpWhileRunning ==
    [][(Alive(thread) /\ DrvStart) =>
          (thr' = thr /\ spi_open' = spi_open /\ controller' = controller
                      /\ stop_event' = stop_event)]_vars

(***************************************************************************)
(* C21: stop resets the fan / seat readings and their last-accepted        *)
(* values to the initial value 0, so a session started after a stop        *)
(* carries an invalid nibble of its first cycle forward from 0.            *)
(***************************************************************************)
\* no session is running and none is being stopped
DrvStopped == btn.play /\ ~btn.stop /\ stopper = "idle" /\ ~Alive(thread)

C21_StopResetsReadings ==
    /\ DrvStopped =>
          /\ prev_fan = [k \in PosSet |-> 0]
          /\ prev_seat = [k \in PosSet |-> 0]
    /\ (/\ thread # 0 /\ thr[thread] = "loop" /\ pub.kind = "tid"
        /\ stopper = "idle" /\ \A t \in DOMAIN thr : t # thread => thr[t] = "dead") =>
          /\ prev_fan = [k \in PosSet |-> 0]
          /\ prev_seat = [k \in PosSet |-> 0]

(***************************************************************************)
(* C23: once stop has signalled, the poll thread starts no new cycle after  *)
(* the wait in which the signal arrived. Play is disabled until Stop is     *)
(* clicked, so every thread but the one of the last start() has been        *)
(* signalled.                                                               *)
(***************************************************************************)
\* thread t goes through one pass of the loop body
DrvCycleStep(t) == thr[t] = "loop" /\ thr'[t] = "wait"

C23_NoCycleAfterStopSignal ==
    [][\A t \in DOMAIN thr : DrvCycleStep(t) => (~stop_event /\ t = thread)]_vars

(***************************************************************************)
(* C26: whatever the starts, poll cycles and stops, every published fan    *)
(* level is in 0..10 and every published heater level in 0..3, and so is   *)
(* the last-accepted memory of each of the four positions.                 *)
(***************************************************************************)
C26_LevelsInRange ==
    \A k \in PosSet :
        /\ pub.fan[k] \in 0..10 /\ pub.seat[k] \in 0..3
        /\ prev_fan[k] \in 0..10 /\ prev_seat[k] \in 0..3

\* a second session publishing both upper limits, and 0 carried forward for
\* the invalid nibbles, from the words 0xB3A7 and 0x3F10
C26_Witness ==
    /\ Len(thr) >= 2
    /\ pub.kind = "update"
    /\ pub.fan["FR"] = 10 /\ pub.seat["RR"] = 3
    /\ prev_fan["FR"] = 10 /\ prev_seat["RR"] = 3
    /\ pub.fan["RR"] = 0 /\ pub.seat["RL"] = 0

(***************************************************************************)
(* The battery application: Stop, the sequencer, the decoder, the close    *)
(***************************************************************************)
Has(ev, k) == \E i \in DOMAIN ev : ev[i] = k

\* the place of an event in a log, 0 when it is absent
Pos(log, k) == IF Has(log, k) THEN CHOOSE i \in DOMAIN log : log[i] = k ELSE 0

\* when both are logged, a is logged before b
Before(log, a, b) == (Has(log, a) /\ Has(log, b)) => Pos(log, a) < Pos(log, b)

\* a step that ends do_stop
StopCompletes == StopFinish \/ (StopClick /\ stopw' = "idle")

C4_RisingEdgeSequence ==
    [][/\ SeqRiseAssert => (reset_state' /\ pca' = pca /\ dev' = dev /\ seq' = "rise_wait2")
       /\ (SeqRiseInit /\ ~moved) =>
             /\ Has(last'.ev, "init_device") <=> ~pca.initialized
             /\ pca.initialized => (i2c_ready' /\ pca' = pca /\ dev' = dev)
             /\ vdet_state' /\ reset_state']_vars

\* C5: the sample that sees detect fall drives RESET low in that same step,
\* issues no bus traffic, leaves the driver's fields, the device registers
\* and i2c_ready as they were and goes back to sleep; the sequencer turns
\* to the expander only at the end of a rising-edge sequence.
C5_FallingEdge ==
    [][/\ (SeqSample /\ vdet_state /\ ~vdet_state') =>
             /\ ~reset_state'
             /\ gpio_claimed => ~reset_pin'
             /\ pca' = pca /\ dev' = dev /\ i2c_ready' = i2c_ready
             /\ last' = Ran("seq", <<"falling", "reset_low">>)
             /\ seq' = "sleep"
       /\ (last'.actor = "seq" /\ last' # last /\ Has(last'.ev, "init_device")) =>
             (seq = "rise_wait2" /\ vdet_state)]_vars

\* detect fell over an initialised expander with RESET high
C5_Witness ==
    /\ last = Ran("seq", <<"falling", "reset_low">>)
    /\ pca.initialized /\ pca.bus = "SMBus"
    /\ ~reset_state /\ ~reset_pin /\ ~vdet_state
    /\ dev[REG_OUT0] # 0

\* a pass of the poll loop that decoded all nine words
SpiDecoded == (SpiWake \/ PlayClick) /\ Has(last'.ev, "ui_assign")

\* the sixteen outputs of the device, bit n-1 for channel n
DevBit(d, n) ==
    IF n <= 8 THEN (d[REG_OUT0] \div (2 ^ (n - 1))) % 2 = 1
    ELSE (d[REG_OUT1] \div (2 ^ (n - 9))) % 2 = 1

\* C6: a pass calls set_outputs_16 exactly when the expander is
\* initialised, i2c_ready is set and the tracked detect and reset are both
\* high at the call; otherwise it issues no bus traffic and the registers
\* stay; a verified call leaves the decoded bitmap in the output
\* registers; after a failed verify the task sleeps and loops on.
C6_GatedForward ==
    [][SpiDecoded =>
          /\ Has(last'.ev, "set_outputs_16")
                <=> (pca.initialized /\ i2c_ready /\ vdet_state /\ reset_state)
          /\ ~Has(last'.ev, "set_outputs_16")
                => (dev' = dev /\ ~Has(last'.ev, "write") /\ ~Has(last'.ev, "read"))
          /\ Has(last'.ev, "verified")
                => \A n \in 1..16 : DevBit(dev', n) = shown'.on[n]
          /\ Has(last'.ev, "verify_failed")
                => (spi_task' = "sleep" /\ spi_running' /\ pca' = pca)]_vars

\* a pass whose verify failed, the task asleep and the loop still on
C6_Witness ==
    /\ last.actor = "spi"
    /\ Has(last.ev, "verify_failed")
    /\ spi_task = "sleep" /\ spi_running

\* a pass with the expander initialised and detect high but RESET low: the
\* bitmap is shown and not forwarded
C6_WitnessGateClosed ==
    /\ last.actor = "spi"
    /\ Has(last.ev, "ui_assign") /\ ~Has(last.ev, "set_outputs_16")
    /\ pca.initialized /\ i2c_ready /\ vdet_state /\ ~reset_state

SeqInitStep == seq = "rise_wait2" /\ seq' = "sleep"

HotInitStep == hot'.init_wait = hot.init_wait - 1 /\ hot'.pulse = hot.pulse

HotPulseEndStep == hot'.pulse = hot.pulse - 1 /\ hot'.init_wait = hot.init_wait + 1

HotAcceptedStep == hot'.pulse = hot.pulse + 1 /\ hot'.init_wait = hot.init_wait

HotRefusedStep == vdet_pin' = vdet_pin /\ hot' = hot /\ last'.actor = "hot_refused"

\* the last step ran init_device and a bus operation of it failed
InitFailedOnBus(ev) ==
    Has(ev, "init_device")
        /\ (Has(ev, "open_err") \/ Has(ev, "write_err") \/ Has(ev, "read_err"))

\* C15: when opening the bus, a register write or a register read fails
\* inside init_device, the sequencer or hot-reset step that called it ends
\* with initialized false and i2c_ready false, nothing is raised into the
\* task, and the sequencer goes back to its sampling loop.
C15_InitBusErrorContained ==
    [][((SeqInitStep \/ HotInitStep) /\ InitFailedOnBus(last'.ev)) =>
          /\ ~pca'.initialized
          /\ ~i2c_ready'
          /\ Has(last'.ev, "open_err") => pca'.bus = "None"
          /\ SeqInitStep => (seq' = "sleep" /\ last'.actor = "seq")
          /\ HotInitStep => (seq' = seq /\ last'.actor = "hot")
          /\ app_running' = app_running]_vars

\* the sequencer back in its loop after a register write of init_device
\* failed on the open bus
C15_Witness ==
    /\ last.actor = "seq" /\ Has(last.ev, "init_device") /\ Has(last.ev, "write_err")
    /\ seq = "sleep" /\ app_running
    /\ pca.bus = "SMBus" /\ ~pca.initialized /\ ~i2c_ready

\* the hot reset ended after the bus could not be opened
C15_WitnessOpen ==
    /\ last.actor = "hot" /\ Has(last.ev, "open_err")
    /\ pca.bus = "None" /\ ~pca.initialized /\ ~i2c_ready

\* C16: a hot reset requested while the detect input reads low drives
\* RESET low and sets the tracked reset false, raises the notice, starts
\* no pulse and touches neither the expander nor i2c_ready.
C16_HotResetRefusedWhenLow ==
    [][((HotAcceptedStep \/ HotRefusedStep) /\ ~(gpio_claimed /\ vdet_pin)) =>
          /\ ~reset_state'
          /\ gpio_claimed => ~reset_pin'
          /\ last' = Ran("hot_refused", <<"reset_low", "notice">>)
          /\ hot' = hot
          /\ pca' = pca /\ dev' = dev /\ i2c_ready' = i2c_ready]_vars

\* refused with detect low while the tracked detect is still high and
\* RESET was high
C16_Witness ==
    /\ last.actor = "hot_refused"
    /\ ~vdet_pin /\ vdet_state /\ gpio_claimed
    /\ ~reset_state /\ ~reset_pin
    /\ pca.initialized

\* C17 as stated: a hot reset with detect high drives RESET low, after the
\* pulse drives it high, after the init delay calls init_device unless
\* the expander is initialised (then i2c_ready is set without a call), and
\* with no detect edge during it ends with reset asserted.
C17_HotResetSequence ==
    [][/\ HotAcceptedStep =>
             (~reset_state' /\ (gpio_claimed => ~reset_pin') /\ pca' = pca /\ dev' = dev)
       /\ HotPulseEndStep =>
             (reset_state' /\ (gpio_claimed => reset_pin') /\ pca' = pca /\ dev' = dev)
       /\ HotInitStep =>
             /\ Has(last'.ev, "init_device") <=> ~pca.initialized
             /\ pca.initialized => (i2c_ready' /\ pca' = pca /\ dev' = dev)
       /\ (HotInitStep /\ ~hot.edge) => reset_state']_vars

\* C20 as stated, for the channel decoder: a pass in which a read raises or
\* gets a short response publishes nothing and leaves the readings as they
\* were.
C20_FailedCyclePublishesNothing ==
    (cyc.done /\ cyc.fault.kind # "none") => (~cyc.ok /\ cyc.shown = NoCycle.shown)

\* C27: the tracked detect state changes only in steps of the sequencer, the
\* tracked reset state only in steps of the sequencer and of the hot reset;
\* the decoder, Play, Stop with its forcing of the outputs, and the close
\* leave both as they are.
C27_TrackedStateWriters ==
    [][/\ vdet_state' # vdet_state => last'.actor = "seq"
       /\ reset_state' # reset_state => last'.actor \in {"seq", "hot", "hot_refused"}
       /\ (/\ vdet_pin' = vdet_pin
           /\ last'.actor \in {"spi", "play", "stop", "stop_wait", "close", "close_wait"})
              => (vdet_state' = vdet_state /\ reset_state' = reset_state)]_vars

\* Stop has forced the outputs off with detect and reset tracked high
C27_Witness ==
    /\ last.actor = "stop" /\ Has(last.ev, "set_outputs_16")
    /\ vdet_state /\ reset_state

\* C29 as stated: in every interleaving of the sequencer, the hot reset and
\* the detect line, init_device is called only while the tracked reset
\* state is true.
C29_InitOnlyWhileResetAsserted ==
    [][((SeqInitStep \/ HotInitStep) /\ Has(last'.ev, "init_device")) => reset_state]_vars

\* C30 as stated: with no rising-edge sequence and no hot reset in progress,
\* reset tracked as asserted implies that the detect value last sampled by
\* the sequencer is high.
C30_ResetImpliesDetect ==
    (seq = "sleep" /\ hot.pulse + hot.init_wait = 0) => (reset_state => vdet_state)

(***************************************************************************)
(* C35: in every state of the expander driver initialized implies an open  *)
(* bus handle: initialized becomes true only through an init_device that   *)
(* has the bus open and read all six registers back as zero, and a call    *)
(* that releases the handle leaves initialized false.                      *)
(***************************************************************************)
C35_InitializedImpliesBusOpen ==
    /\ pca.initialized => pca.bus = "SMBus"
    /\ (pca.initialized /\ ~call.pre.initialized) =>
          LET rd == OpsOf({"read"})
          IN /\ call.op = "init_device" /\ call.ret
             /\ {rd[i].reg : i \in DOMAIN rd} = Regs
             /\ \A i \in DOMAIN rd : rd[i].val = 0
    /\ (call.pre.bus = "SMBus" /\ pca.bus = "None") => ~pca.initialized

\* an init_device that opened the bus itself and verified, and a shutdown
\* that released the handle of an initialised expander
C35_Witness ==
    /\ call.op = "init_device" /\ call.pre.bus = "None" /\ call.ret
    /\ OpsOf({"open"}) # <<>>
    /\ pca = [bus |-> "SMBus", initialized |-> TRUE]

C35_WitnessRelease ==
    /\ call.op = "shutdown_safe"
    /\ call.pre = [bus |-> "SMBus", initialized |-> TRUE]
    /\ pca = [bus |-> "None", initialized |-> FALSE]

\* C32 as stated: within one start/stop session of the fan/seat poller the
\* enable-pin cleanup and the SPI close each happen at most once, and no
\* register read is issued on a closed SPI handle.
C32_CleanupOncePerSession ==
    /\ session.en_cleanups <= 1
    /\ session.spi_closes <= 1
    /\ session.closed_reads = 0

(***************************************************************************)
(* SpecSeq: the detect line, the sequencer and the hot reset, the tasks    *)
(* under the event loop's scheduling: a task suspended in asyncio.sleep    *)
(* is resumed, so each task step is taken once it stays enabled. The       *)
(* click and the detect line are the environment's and need not happen.    *)
(***************************************************************************)
\* do_hot_reset's last step, told by what it changes
HotInitWake ==
    /\ hot.init_wait > 0
    /\ \E e \in BOOLEAN :
          hot' = [pulse |-> hot.pulse, init_wait |-> hot.init_wait - 1, edge |-> e]

SeqNext ==
    \/ VdetChange
    \/ SeqSample
    \/ SeqRiseAssert
    \/ SeqRiseInit
    \/ HotClick
    \/ HotPulseEnd
    \/ HotInit

\* SeqInitStep and HotInitWake are the steps SeqRiseInit and HotInit take
SpecSeq ==
    /\ AppInit
    /\ [][SeqNext]_vars
    /\ WF_vars(SeqSample) /\ WF_vars(SeqRiseAssert) /\ WF_seq(SeqInitStep)
    /\ WF_vars(HotPulseEnd) /\ WF_hot(HotInitWake)

\* C34 as stated: when the detect input is high at the start of the process
\* and stays high, the sequencer eventually asserts RESET and eventually
\* calls init_device.
C34_HighAtStartInitializes ==
    ([]vdet_pin) =>
        /\ <>(seq = "rise_wait2" /\ reset_state)
        /\ <>(last.actor = "seq" /\ Has(last.ev, "init_device"))

\* C33 as stated: over any sequence of start() and stop() calls at most one
\* poll thread of the fan/seat poller is in its polling loop at any time.
C33_AtMostOnePollThread ==
    Cardinality({t \in DOMAIN thr : thr[t] \in {"loop", "wait"}}) <= 1

\* C31 as stated: once the close task has run shutdown_safe, the bus handle
\* is closed and initialized is false in every later state.
C31_BusStaysClosedAfterShutdown ==
    closing = "done" => (pca.bus = "None" /\ ~pca.initialized)

\* C10 as stated: at shutdown the cancellation comes first, then the
\* bounded wait, then the outputs are forced off, then the I2C bus and the
\* SPI port are closed, and only then are the pins released.
C10_ShutdownOrderAsStated ==
    closing = "done" =>
        /\ Before(sdlog, "cancel", "wait_over")
        /\ Before(sdlog, "wait_over", "outputs_off")
        /\ Before(sdlog, "outputs_off", "i2c_close")
        /\ Before(sdlog, "outputs_off", "spi_close")
        /\ Before(sdlog, "i2c_close", "gpio_release")
        /\ Before(sdlog, "spi_close", "gpio_release")
        /\ Before(sdlog, "i2c_close", "spi_en_release")
        /\ Before(sdlog, "spi_close", "spi_en_release")

\* C10, amended: the close task signals cancellation, waits, runs
\* shutdown_safe (outputs forced off, then the I2C bus closed, when the
\* bus is open), releases VDET and RESET and destroys the window, in that
\* order; the SPI task, on seeing the cancellation, releases SPI_EN and
\* then closes the SPI port, after the cancellation and at any point
\* relative to the rest.
C10_ShutdownOrder ==
    /\ [](closing = "done" =>
            /\ Has(sdlog, "cancel") /\ Has(sdlog, "wait_over")
            /\ Has(sdlog, "shutdown_safe")
            /\ Has(sdlog, "gpio_release") /\ Has(sdlog, "destroy")
            /\ Before(sdlog, "cancel", "wait_over")
            /\ Before(sdlog, "wait_over", "shutdown_safe")
            /\ Before(sdlog, "shutdown_safe", "outputs_off")
            /\ Before(sdlog, "outputs_off", "i2c_close")
            /\ Before(sdlog, "shutdown_safe", "i2c_close")
            /\ Before(sdlog, "i2c_close", "gpio_release")
            /\ Before(sdlog, "shutdown_safe", "gpio_release")
            /\ Before(sdlog, "gpio_release", "destroy")
            /\ Before(sdlog, "cancel", "spi_en_release")
            /\ Before(sdlog, "spi_en_release", "spi_close")
            /\ Has(sdlog, "spi_close") => Has(sdlog, "spi_en_release")
            /\ Has(sdlog, "outputs_off") => Has(sdlog, "i2c_close"))
    /\ [][(closing # "done" /\ closing' = "done") =>
            /\ pca'.bus = "None" /\ ~pca'.initialized /\ ~gpio_claimed'
            /\ pca.bus # "None" => (Has(sdlog', "outputs_off") /\ Has(sdlog', "i2c_close"))
            /\ pca.bus = "None" => (~Has(sdlog', "outputs_off") /\ ~Has(sdlog', "i2c_close"))]_vars

\* the window is gone, the SPI port was closed during the wait and the
\* outputs were forced off after that
C10_Witness ==
    /\ closing = "done"
    /\ Has(sdlog, "spi_close") /\ Has(sdlog, "outputs_off")
    /\ Pos(sdlog, "spi_en_release") < Pos(sdlog, "spi_close")
    /\ Pos(sdlog, "spi_close") < Pos(sdlog, "outputs_off")

====
